---------------------------- MODULE Spec2Model ----------------------------
(***************************************************************************)
(* A model of jupyterlab_omnisci/altair.py: the registry of Ibis           *)
(* expressions keyed by generated names, the "ibis" Altair renderer with   *)
(* its comm callback, the rewriter update_spec that moves Vega-Lite        *)
(* transforms into the Ibis expression, and display_chart.                 *)
(*                                                                         *)
(* Python dicts are functions whose DOMAIN is the set of keys present;     *)
(* Python lists are sequences.  An Ibis expression is a record             *)
(*   [cols |-> its column names, by |-> the pending group-by keys,         *)
(*    ops |-> the operations applied to the table, in order].              *)
(***************************************************************************)
EXTENDS Integers, Sequences, FiniteSets, TLC

VARIABLES
    u_expr0,    \* update_spec: the expr argument
    u_spec0,    \* update_spec: the spec argument as it was at the call
    u_spec,     \* update_spec: the spec object (mutated in place)
    u_hist,     \* update_spec: expr and transform list after each loop iteration
    u_ret,      \* update_spec: [status, expr] of the call
    _i,             \* the module global _i: the next name's number
    _name_to_ibis,  \* the module global _name_to_ibis: name -> expression
    displays,       \* the displays shown with display_id=True: what each shows
    comms,          \* the comms opened by extract_spec, with their callbacks
    enabled,        \* the options of altair.renderers.enable("ibis", ...)
    chart,          \* the chart at hand: altair.Chart(data) with its transforms
    cell,           \* what display_chart has displayed in the cell, in order
    issued,         \* history: the names ibis_transformation has returned, in
                    \* order, each with its expression and its retrievals so far
    k_last          \* the last call: its arguments, the globals before it, its result

uvars == <<u_expr0, u_spec0, u_spec, u_hist, u_ret>>

kvars == <<_i, _name_to_ibis, displays, comms, enabled, chart, cell, issued, k_last>>

vars == <<uvars, kvars>>

---------------------------------------------------------------------------
(* Bounds *)

MaxTransforms == 2

\* calls of ibis_transformation in the registry's specification
MaxNames == 3

\* charts registered, and messages received on the comms, in the renderer's
MaxCharts == 1
MaxMsgs == 2

---------------------------------------------------------------------------
(* Python dict and truthiness helpers *)

Pop(d, k) == [x \in DOMAIN d \ {k} |-> d[x]]

Put(d, k, v) == [x \in DOMAIN d \cup {k} |-> IF x = k THEN v ELSE d[x]]

\* bool(x) of a list or a dict: empty is false
Truthy(x) == DOMAIN x # {}

Range(s) == {s[i] : i \in DOMAIN s}

---------------------------------------------------------------------------
(* The Ibis expression API as far as altair.py calls it *)

IbisMethods == {"mean", "sum", "count", "min", "max"}

\* expr.groupby(keys)
IbisGroupby(expr, keys) ==
    [cols |-> expr.cols, by |-> keys, ops |-> Append(expr.ops, <<"groupby", keys>>)]

\* expr.aggregate(metrics): the result has the group keys and the metrics
IbisAggregate(expr, metrics) ==
    [cols |-> Range(expr.by) \cup {metrics[i].name : i \in DOMAIN metrics},
     by   |-> <<>>,
     ops  |-> Append(expr.ops, <<"aggregate", metrics>>)]

\* expr.filter(preds)
IbisFilter(expr, preds) ==
    [expr EXCEPT !.ops = Append(@, <<"filter", preds>>)]

---------------------------------------------------------------------------
(* translate_op, vl_aggregate_to_grouping_expr *)


translate_op(op) ==
    IF op \in {"mean", "average"} THEN "mean" ELSE op

\* does vl_aggregate_to_grouping_expr(expr, a) raise: expr[a["field"]] on a
\* missing column, getattr(expr, op) on a missing method
AggregateRaises(expr, a) ==
    \/ "field" \in DOMAIN a /\ a.field \notin expr.cols
    \/ translate_op(a.op) \notin IbisMethods

vl_aggregate_to_grouping_expr(expr, a) ==
    [on     |-> IF "field" \in DOMAIN a THEN <<a.field>> ELSE <<>>,
     method |-> translate_op(a.op),
     name   |-> a.as]

---------------------------------------------------------------------------
(* update_spec: one iteration of the loop over spec["transform"]           *)
(* The result is [expr, transform, raised].                                *)

\* lines 259-271: the predicates of a field predicate, by the first key found
FilterRule(filter_) ==
    IF "range" \in DOMAIN filter_ THEN "range"
    ELSE IF "equal" \in DOMAIN filter_ THEN "equal"
    ELSE IF "gt" \in DOMAIN filter_ THEN "gt"
    ELSE IF "lt" \in DOMAIN filter_ THEN "lt"
    ELSE IF "lte" \in DOMAIN filter_ THEN "lte"
    ELSE IF "gte" \in DOMAIN filter_ THEN "gte"
    ELSE "none"

PredsOf(f, r, filter_) ==
    IF r = "range" THEN << <<f, ">=", filter_.range[1]>>, <<f, "<=", filter_.range[2]>> >>
    ELSE IF r = "equal" THEN << <<f, "==", filter_.equal>> >>
    ELSE IF r = "gt" THEN << <<f, ">", filter_.gt>> >>
    ELSE IF r = "lt" THEN << <<f, "<", filter_.lt>> >>
    ELSE IF r = "lte" THEN << <<f, "<=", filter_.lte>> >>
    ELSE << <<f, ">=", filter_.gte>> >>

FilterPreds(filter_) == PredsOf(filter_.field, FilterRule(filter_), filter_)

\* the outcome of one step: the expression, the transform, and whether it raised
Outcome(expr, transform, raised) ==
    [expr |-> expr, transform |-> transform, raised |-> raised]

\* ApplyFilter without line 274: a filter no rule covers is not put back
ApplyFilter_NoPutBack(expr, original_expr, popped, filter_, rule) ==
    IF "field" \notin DOMAIN filter_
    THEN Outcome(expr, popped, TRUE)
    ELSE IF filter_.field \notin original_expr.cols
    THEN Outcome(expr, popped, TRUE)
    ELSE IF rule = "none"
    THEN Outcome(expr, popped, FALSE)
    ELSE Outcome(IbisFilter(expr, FilterPreds(filter_)), popped, FALSE)

\* lines 255-276: filter_ is truthy and already popped from the transform
ApplyFilter(expr, original_expr, popped, filter_, rule) ==
    IF "field" \notin DOMAIN filter_
    THEN Outcome(expr, popped, TRUE)            \* filter_['field']: KeyError
    ELSE IF filter_.field \notin original_expr.cols
    THEN Outcome(expr, popped, TRUE)            \* original_expr[field] raises
    ELSE IF rule = "none"
    THEN Outcome(expr, Put(popped, "filter", filter_), FALSE)   \* put filter back
    ELSE Outcome(IbisFilter(expr, FilterPreds(filter_)), popped, FALSE)

\* lines 254-276, entered with the groupby and aggregate already handled
FilterPart(expr, original_expr, transform) ==
    IF "filter" \notin DOMAIN transform
    THEN Outcome(expr, transform, FALSE)
    ELSE IF ~Truthy(transform.filter)
    THEN Outcome(expr, Pop(transform, "filter"), FALSE)
    ELSE ApplyFilter(expr, original_expr, Pop(transform, "filter"),
                     transform.filter, FilterRule(transform.filter))

\* lines 249-252: the metrics, each computed on original_expr
Metrics(original_expr, aggregate) ==
    [i \in DOMAIN aggregate |-> vl_aggregate_to_grouping_expr(original_expr, aggregate[i])]

\* the expression after lines 248-252, when they do not raise
AfterAggregate(expr, original_expr, transform) ==
    IF "aggregate" \in DOMAIN transform /\ Truthy(transform.aggregate)
    THEN IbisAggregate(expr, Metrics(original_expr, transform.aggregate))
    ELSE expr

\* lines 248-252, then the filter
AggregatePart(expr, original_expr, transform) ==
    IF /\ "aggregate" \in DOMAIN transform
       /\ \E i \in DOMAIN transform.aggregate :
              AggregateRaises(original_expr, transform.aggregate[i])
    THEN Outcome(expr, Pop(transform, "aggregate"), TRUE)
    ELSE FilterPart(AfterAggregate(expr, original_expr, transform), original_expr,
                    Pop(transform, "aggregate"))

\* line 241: all([field in expr.columns for field in groupby])
AllFieldsExist(expr, groupby) == \A i \in DOMAIN groupby : groupby[i] \in expr.cols

\* the expression after lines 239-246, when the loop goes on to the aggregate
AfterGroupby(expr, transform) ==
    IF "groupby" \in DOMAIN transform /\ Truthy(transform.groupby)
    THEN IbisGroupby(expr, transform.groupby)
    ELSE expr

\* UpdateTransform without line 243: an unresolved groupby is not put back
UpdateTransform_DropsGroupby(expr, original_expr, transform) ==
    IF /\ "groupby" \in DOMAIN transform
       /\ Truthy(transform.groupby)
       /\ ~AllFieldsExist(expr, transform.groupby)
    THEN Outcome(expr, Pop(transform, "groupby"), FALSE)
    ELSE AggregatePart(AfterGroupby(expr, transform), original_expr,
                       Pop(transform, "groupby"))

\* lines 239-246, then the aggregate and the filter
UpdateTransform(expr, original_expr, transform) ==
    IF /\ "groupby" \in DOMAIN transform
       /\ Truthy(transform.groupby)
       /\ ~AllFieldsExist(expr, transform.groupby)
    THEN Outcome(expr, transform, FALSE)     \* groupby put back, continue
    ELSE AggregatePart(AfterGroupby(expr, transform), original_expr,
                       Pop(transform, "groupby"))

---------------------------------------------------------------------------
(* update_spec: the loop and the clean-up of the transform list            *)

RECURSIVE LoopFrom(_, _, _, _)

\* the loop state after iteration i, whose outcome is r
Snapshot(r, ts, i) ==
    [expr |-> r.expr, transforms |-> [ts EXCEPT ![i] = r.transform], raised |-> r.raised]

\* the loop after iteration i: it ends at a raise
LoopAfter(r, original_expr, ts, i) ==
    IF r.raised THEN <<Snapshot(r, ts, i)>>
    ELSE <<Snapshot(r, ts, i)>>
            \o LoopFrom(r.expr, original_expr, [ts EXCEPT ![i] = r.transform], i + 1)

\* The states after iterations i, i+1, ... of the loop of lines 238-276, starting
\* iteration i with expression expr and transform list ts.
LoopFrom(expr, original_expr, ts, i) ==
    IF i > Len(ts) THEN <<>>
    ELSE LoopAfter(UpdateTransform(expr, original_expr, ts[i]), original_expr, ts, i)

\* spec.get("transform", [])
GetTransform(spec) == IF "transform" \in DOMAIN spec THEN spec.transform ELSE <<>>

\* lines 279-282: drop the empty transforms, and the key when none is left
RemoveEmpty(spec, ts) ==
    IF Truthy(SelectSeq(ts, Truthy))
    THEN Put(spec, "transform", SelectSeq(ts, Truthy))
    ELSE Pop(spec, "transform")

\* the end of update_spec, given the loop's history: [status, expr, spec, hist]
UpdateResult(expr, spec, hist) ==
    IF hist = <<>>
    THEN [status |-> "returned", expr |-> expr,
          spec |-> RemoveEmpty(spec, <<>>), hist |-> hist]
    ELSE IF hist[Len(hist)].raised
    THEN [status |-> "raised", expr |-> hist[Len(hist)].expr,
          spec |-> Put(spec, "transform", hist[Len(hist)].transforms), hist |-> hist]
    ELSE [status |-> "returned", expr |-> hist[Len(hist)].expr,
          spec |-> RemoveEmpty(spec, hist[Len(hist)].transforms), hist |-> hist]

\* update_spec(expr, spec)
update_spec(expr, spec) ==
    UpdateResult(expr, spec, LoopFrom(expr, expr, GetTransform(spec), 1))

---------------------------------------------------------------------------
(* The registry: ibis_transformation and retrieve_expr                     *)

Digit(d) == <<"0", "1", "2", "3", "4", "5", "6", "7", "8", "9">>[d + 1]

\* str(n) of a natural number
RECURSIVE Str(_)
Str(n) == IF n < 10 THEN Digit(n) ELSE Str(n \div 10) \o Digit(n % 10)

\* the name without the counter in it
NameOf_Constant(n) == "ibis_"

\* line 211: f"ibis_{_i}"
NameOf(n) == "ibis_" \o Str(n)

\* ibis_transformation(data) with the globals i and reg:
\* [status, value, i, reg] after the call
ibis_transformation(data, i, reg) ==
    IF data.type # "DataFrame"
    THEN [status |-> "raised", i |-> i, reg |-> reg]            \* line 209
    ELSE IF data.ibis = <<>>
    THEN [status |-> "raised", i |-> i + 1, reg |-> reg]        \* line 213: no .ibis
    ELSE [status |-> "returned", value |-> [name |-> NameOf(i)],
          i |-> i + 1, reg |-> Put(reg, NameOf(i), data.ibis[1])]

\* lines 192-193: some specs have a sub "spec" key
InnerSpec(spec) == IF "spec" \in DOMAIN spec THEN spec.spec ELSE spec

\* line 195: does spec["data"]["name"], or the pop, raise KeyError
LookupFails(s, reg) ==
    \/ "data" \notin DOMAIN s
    \/ "name" \notin DOMAIN s.data
    \/ s.data.name \notin DOMAIN reg

\* retrieve_expr that reads the entry and leaves it in the registry
retrieve_expr_NoPop(spec, reg) ==
    IF LookupFails(InnerSpec(spec), reg)
    THEN [status |-> "raised", reg |-> reg]
    ELSE [status |-> "returned", value |-> reg[InnerSpec(spec).data.name], reg |-> reg]

\* retrieve_expr(spec) with the global reg: [status, value, reg] after the call
retrieve_expr(spec, reg) ==
    IF LookupFails(InnerSpec(spec), reg)
    THEN [status |-> "raised", reg |-> reg]                     \* RuntimeError
    ELSE [status |-> "returned", value |-> reg[InnerSpec(spec).data.name],
          reg |-> Pop(reg, InnerSpec(spec).data.name)]

---------------------------------------------------------------------------
(* The renderer: ibis_renderer, to_data, to_display, extract_spec          *)

EMPTY_SPEC == [data |-> [values |-> <<>>], mark |-> "bar"]

COMM_ID == "extract-vega-lite"

Types == {"vl", "vl-omnisci", "json", "sql"}

\* a text: the placeholder of the "sql" type, and the SQL of expr.compile()
Waiting == <<"Waiting for transformed spec...">>

\* expr.compile(), expr.execute(), altair.utils.data.to_json(df)
IbisCompile(expr) == <<"SELECT", expr.cols, expr.ops>>
IbisExecute(expr) == [columns |-> expr.cols, rows_of |-> expr.ops]
DEFAULT_TRANSFORMER(df) == [url |-> df, format |-> "json"]

\* get_client(expr): the connection of the expression's table
get_client(expr) == [host |-> "localhost", db_name |-> "omnisci"]

\* lines 55-67: the display class, and what is shown until the callback runs
DisplayType(type) ==
    IF type = "vl" THEN "VegaLite"
    ELSE IF type = "vl-omnisci" THEN "VegaLiteOmniSci"
    ELSE IF type = "json" THEN "CompatJSON"
    ELSE "Code"

DisplayData(type, conn) ==
    IF type = "vl" THEN EMPTY_SPEC
    ELSE IF type = "vl-omnisci" THEN <<EMPTY_SPEC, conn>>
    ELSE IF type = "json" THEN [_ |-> "Waiting for transformed spec..."]
    ELSE Waiting

\* set_data(spec, data)
set_data(spec, data) ==
    IF "spec" \in DOMAIN spec
    THEN Put(spec, "spec", Put(spec.spec, "data", data))
    ELSE Put(spec, "data", data)

\* lines 75-84: what to_data returns for the spec and the expression it has
DataOf(spec, expr, type, conn) ==
    IF type = "vl" THEN set_data(spec, DEFAULT_TRANSFORMER(IbisExecute(expr)))
    ELSE IF type = "vl-omnisci" THEN <<set_data(spec, [sql |-> IbisCompile(expr)]), conn>>
    ELSE IF type = "json" THEN spec
    ELSE IbisCompile(expr)

\* lines 72-84 after update_spec, whose result is r
DataOfCompiled(r, type, conn) ==
    IF r.status = "raised" THEN [status |-> "raised"]
    ELSE [status |-> "returned", value |-> DataOf(r.spec, r.expr, type, conn)]

\* to_data that compiles whatever the compile argument says
to_data_AlwaysCompiles(spec, expr, type, compile, conn) ==
    DataOfCompiled(update_spec(expr, spec), type, conn)

\* to_data(spec, expr) of a renderer called with type and compile: [status, value]
to_data(spec, expr, type, compile, conn) ==
    IF compile
    THEN DataOfCompiled(update_spec(expr, spec), type, conn)
    ELSE [status |-> "returned", value |-> DataOf(spec, expr, type, conn)]

\* a display object: its class and its data
DisplayObject(type, data) == <<DisplayType(type), data>>

\* to_display, given to_data's outcome d
DisplayOf(d, type) ==
    IF d.status = "raised" THEN d
    ELSE [status |-> "returned", value |-> DisplayObject(type, d.value)]

\* to_display(spec): [status, value]
to_display(spec, expr, type, compile, conn) ==
    DisplayOf(to_data(spec, expr, type, compile, conn), type)

\* get_ipython().display_formatter.format(obj)[0]: the object's mime bundle
Format(obj) ==
    IF obj[1] = "VegaLite" THEN [mime |-> "application/vnd.vegalite.v2+json", data |-> obj[2]]
    ELSE IF obj[1] = "VegaLiteOmniSci"
    THEN [mime |-> "application/vnd.omnisci.vega+json",
          data |-> [vegalite |-> obj[2][1], connection |-> obj[2][2]]]
    ELSE IF obj[1] = "CompatJSON" THEN [mime |-> "application/json", data |-> obj[2]]
    ELSE [mime |-> "text/plain", data |-> obj[2]]

\* a display shown with display_id=True, and display_id.update(obj)
NewDisplay(obj) == [shown |-> obj, updates |-> 0]
UpdateDisplay(d, obj) == [shown |-> obj, updates |-> d.updates + 1]

\* extract_spec(spec, callback): the comm opened with data=spec, and the
\* callback's closure (the display to update, to_data's type, compile, expr)
NewComm(spec, display, expr, type, compile) ==
    [target |-> COMM_ID, data |-> spec, display |-> display, expr |-> expr,
     type |-> type, compile |-> compile, received |-> 0]

\* line 94, given to_display's outcome d
RenderNow(d, reg, ds, cs) ==
    IF d.status = "raised"
    THEN [status |-> "raised", reg |-> reg, displays |-> ds, comms |-> cs]
    ELSE [status |-> "returned", value |-> Format(d.value),
          reg |-> reg, displays |-> ds, comms |-> cs]

\* lines 89-93
RenderLater(spec, expr, type, compile, reg, ds, cs) ==
    [status |-> "returned", value |-> [text_plain |-> ""], reg |-> reg,
     displays |-> Append(ds, NewDisplay(DisplayObject(type, DisplayData(type, get_client(expr))))),
     comms |-> Append(cs, NewComm(spec, Len(ds) + 1, expr, type, compile))]

\* lines 54-94, r being the outcome of retrieve_expr(spec)
RenderWith(r, spec, type, extract, compile, ds, cs) ==
    IF r.status = "raised" \/ type \notin Types
    THEN [status |-> "raised", reg |-> r.reg, displays |-> ds, comms |-> cs]
    ELSE IF extract
    THEN RenderLater(spec, r.value, type, compile, r.reg, ds, cs)
    ELSE RenderNow(to_display(spec, r.value, type, compile, get_client(r.value)),
                   r.reg, ds, cs)

\* ibis_renderer(spec, type, extract, compile) with the global reg, the displays
\* ds and the comms cs: [status, value, reg, displays, comms] after the call
ibis_renderer(spec, type, extract, compile, reg, ds, cs) ==
    RenderWith(retrieve_expr(spec, reg), spec, type, extract, compile, ds, cs)

\* the comm's _recv(msg), lines 141-142 and the lambda of line 92, given
\* to_display's outcome d for the message's spec: the displays afterwards
Received(d, c, ds) ==
    IF d.status = "raised" THEN ds
    ELSE [ds EXCEPT ![c.display] = UpdateDisplay(@, d.value)]

_recv(c, msgspec, ds) ==
    Received(to_display(msgspec, c.expr, c.type, c.compile, get_client(c.expr)), c, ds)

---------------------------------------------------------------------------
(* Inputs: tables and Vega-Lite transforms *)

Table(cols) == [cols |-> cols, by |-> <<>>, ops |-> <<>>]

Tables == {Table({"a", "b"}), Table({"a", "b", "m"})}

\* an optional dict entry: <<>> is "key absent", <<v>> is "key present with v"
Opt(S) == {<<>>} \cup {<<v>> : v \in S}

GroupbyValues == {<<>>, <<"a">>, <<"m">>}

AggregateValues ==
    { << [op |-> "average", field |-> "b", as |-> "m"], [op |-> "count", as |-> "n"] >> }

\* field predicates the rules cover, one the rules do not cover (oneOf), a
\* logical composition without "field", and the empty dict
CoreFilterValues ==
    { [field |-> "a", range |-> <<0, 1>>],
      [field |-> "a", gt |-> 1],
      [field |-> "a", oneOf |-> <<1>>],
      [and |-> <<1>>],
      <<>> }

MoreFilterValues ==
    { [field |-> "a", equal |-> 1],
      [field |-> "a", lt |-> 1],
      [field |-> "a", lte |-> 1],
      [field |-> "a", gte |-> 1],
      [field |-> "a", gte |-> 0, equal |-> 1],
      [field |-> "m", gt |-> 1] }

MkTransform(g, a, f) ==
    [k \in {"groupby" : i \in DOMAIN g} \cup {"aggregate" : i \in DOMAIN a}
            \cup {"filter" : i \in DOMAIN f} |->
        IF k = "groupby" THEN g[1] ELSE IF k = "aggregate" THEN a[1] ELSE f[1]]

TransformValues ==
    {MkTransform(g, a, f) :
        g \in Opt(GroupbyValues), a \in Opt(AggregateValues), f \in Opt(CoreFilterValues)}
    \cup {MkTransform(<<>>, <<>>, <<f>>) : f \in MoreFilterValues}
    \cup {[calculate |-> "2 * datum.a"]}

TransformLists == UNION {[1..n -> TransformValues] : n \in 0..MaxTransforms}

MkSpec(ts) ==
    IF ts = <<>> THEN [mark |-> "bar"] ELSE [mark |-> "bar", transform |-> ts]

---------------------------------------------------------------------------
(* Calls of update_spec on every input *)

\* the kernel before any call, the renderer enabled with its defaults (line 36)
KernelIdle ==
    /\ _i = 0
    /\ _name_to_ibis = <<>>
    /\ displays = <<>>
    /\ comms = <<>>
    /\ issued = <<>>
    /\ cell = <<>>
    /\ k_last = [op |-> "none"]

DefaultOptions == [type |-> "vl", extract |-> TRUE, compile |-> TRUE]

\* altair.Chart() without data
NoChart == [data |-> [type |-> "None", ibis |-> <<>>], transform |-> <<>>]

InitUpdate ==
    /\ u_expr0 \in Tables
    /\ \E ts \in TransformLists : u_spec0 = MkSpec(ts)
    /\ u_spec = u_spec0
    /\ u_hist = <<>>
    /\ u_ret = [status |-> "none"]
    /\ KernelIdle
    /\ enabled = DefaultOptions
    /\ chart = NoChart

\* the caller's view after update_spec: the spec object mutated, the result kept
SetUpdateResult(r) ==
    /\ u_spec' = r.spec
    /\ u_hist' = r.hist
    /\ u_ret' = [status |-> r.status, expr |-> r.expr]

CallUpdateSpec ==
    /\ u_ret.status = "none"
    /\ SetUpdateResult(update_spec(u_expr0, u_spec))
    /\ UNCHANGED <<u_expr0, u_spec0, kvars>>

NextUpdate == CallUpdateSpec

SpecUpdate == InitUpdate /\ [][NextUpdate]_vars

---------------------------------------------------------------------------
(* Inputs of the registry and the renderer *)

\* what altair.Chart can be given as data: an Ibis expression, a plain
\* DataFrame, something else
RawDataValues ==
    {[type |-> "ibis.Expr", ibis |-> <<e>>] : e \in Tables}
    \cup {[type |-> "DataFrame", ibis |-> <<>>], [type |-> "dict", ibis |-> <<>>]}

\* updated_chart_init: an Ibis expression becomes an empty DataFrame that
\* carries the expression in .ibis
updated_chart_init(data) ==
    IF data.type = "ibis.Expr"
    THEN [type |-> "DataFrame", ibis |-> data.ibis]
    ELSE data

\* the data of the charts, as ibis_transformation is given it
DataValues == {updated_chart_init(d) : d \in RawDataValues}

\* the names a spec can carry: the generated ones, and one that is not
NameValues(max) == {NameOf(n) : n \in 0..(max - 1)} \cup {"table"}

\* a chart's spec: its data named n, its transforms, flat or under a "spec" key
FlatSpec(n, ts) ==
    IF ts = <<>> THEN [data |-> [name |-> n], mark |-> "bar"]
    ELSE [data |-> [name |-> n], mark |-> "bar", transform |-> ts]

NestedSpec(n) == [spec |-> [data |-> [name |-> n], mark |-> "bar"], repeat |-> <<"a", "b">>]

\* specs retrieve_expr can be given
RetrieveSpecs(max) ==
    {FlatSpec(n, <<>>) : n \in NameValues(max)}
    \cup {NestedSpec(n) : n \in NameValues(max)}
    \cup {[data |-> [name |-> n], spec |-> [mark |-> "bar"]] : n \in NameValues(max)}
    \cup {[mark |-> "bar"], [data |-> [values |-> <<>>], mark |-> "bar"]}

\* the transform lists of the charts rendered, and of the specs the frontend
\* sends back
RenderLists ==
    { <<>>,
      << [filter |-> [field |-> "a", gt |-> 1]] >>,
      << [filter |-> [and |-> <<1>>]] >> }

MsgLists ==
    { <<>>,
      << [filter |-> [and |-> <<1>>]] >>,
      << MkTransform(<< <<"a">> >>,
                     << << [op |-> "average", field |-> "b", as |-> "m"] >> >>, <<>>),
         [filter |-> [field |-> "a", gt |-> 1]] >> }

RenderSpecs(max) ==
    {FlatSpec(NameOf(n), ts) : n \in 0..(max - 1), ts \in RenderLists}
    \cup {NestedSpec(NameOf(n)) : n \in 0..(max - 1)}
    \cup {FlatSpec("table", <<>>), [mark |-> "bar"]}

MsgSpecs == {FlatSpec("data-1", ts) : ts \in MsgLists}

OptionValues == [type : Types \cup {"png"}, extract : BOOLEAN, compile : BOOLEAN]

---------------------------------------------------------------------------
(* The registry under any interleaving of its two functions *)

UpdateIdle ==
    /\ u_expr0 = Table({"a", "b"})
    /\ u_spec0 = MkSpec(<<>>)
    /\ u_spec = u_spec0
    /\ u_hist = <<>>
    /\ u_ret = [status |-> "none"]

InitRegistry ==
    /\ KernelIdle
    /\ enabled = DefaultOptions
    /\ chart = NoChart
    /\ UpdateIdle

\* the history after a call that took the names gone out of the registry
MarkRetrieved(gone) ==
    [k \in DOMAIN issued |->
        IF issued[k].name \in gone
        THEN [issued[k] EXCEPT !.retrieved = @ + 1]
        ELSE issued[k]]

\* the name a successful retrieve_expr(spec) looked up
Retrieved(spec, r) ==
    IF r.status = "returned" THEN {InnerSpec(spec).data.name} ELSE {}

\* the globals after ibis_transformation(data), whose outcome is r
SetTransformation(data, r) ==
    /\ _i' = r.i
    /\ _name_to_ibis' = r.reg
    /\ issued' = IF r.status = "returned"
                 THEN Append(issued, [name |-> r.value.name, expr |-> data.ibis[1],
                                      retrieved |-> 0])
                 ELSE issued
    /\ k_last' = [op |-> "ibis_transformation", data |-> data, result |-> r,
                  i_before |-> _i, reg_before |-> _name_to_ibis]
    /\ UNCHANGED <<displays, comms, enabled, chart, cell, uvars>>

CallIbisTransformation ==
    /\ _i < MaxNames
    /\ \E data \in DataValues :
          SetTransformation(data, ibis_transformation(data, _i, _name_to_ibis))

\* the globals after retrieve_expr(spec), whose outcome is r
SetRetrieved(spec, r) ==
    /\ _name_to_ibis' = r.reg
    /\ k_last' = [op |-> "retrieve_expr", spec |-> spec, result |-> r,
                  i_before |-> _i, reg_before |-> _name_to_ibis]
    /\ issued' = MarkRetrieved(Retrieved(spec, r))
    /\ UNCHANGED <<_i, displays, comms, enabled, chart, cell, uvars>>

CallRetrieveExpr ==
    \E spec \in RetrieveSpecs(MaxNames) :
        SetRetrieved(spec, retrieve_expr(spec, _name_to_ibis))

NextRegistry == CallIbisTransformation \/ CallRetrieveExpr

SpecRegistry == InitRegistry /\ [][NextRegistry]_vars

---------------------------------------------------------------------------
(* The renderer, as enabled with some options, and the frontend's messages *)

InitRender ==
    /\ KernelIdle
    /\ enabled \in OptionValues
    /\ \E d \in RawDataValues : chart = [data |-> updated_chart_init(d), transform |-> <<>>]
    /\ UpdateIdle

\* chart.to_dict() with the "ibis" data transformer enabled
RegisterChart ==
    /\ _i < MaxCharts
    /\ SetTransformation(chart.data, ibis_transformation(chart.data, _i, _name_to_ibis))

\* the kernel after ibis_renderer(spec, **enabled), whose outcome is r
SetRendered(spec, r) ==
    /\ _name_to_ibis' = r.reg
    /\ issued' = MarkRetrieved(DOMAIN _name_to_ibis \ DOMAIN r.reg)
    /\ displays' = r.displays
    /\ comms' = r.comms
    /\ k_last' = [op |-> "ibis_renderer", spec |-> spec,
                  result |-> IF r.status = "returned"
                             THEN [status |-> r.status, value |-> r.value]
                             ELSE [status |-> r.status]]
    /\ UNCHANGED <<_i, enabled, chart, cell, uvars>>

CallIbisRenderer ==
    \E spec \in RenderSpecs(MaxCharts) :
        SetRendered(spec, ibis_renderer(spec, enabled.type, enabled.extract,
                                        enabled.compile, _name_to_ibis, displays, comms))

\* the messages received so far, over all comms
RECURSIVE ReceivedUpTo(_, _)
ReceivedUpTo(cs, n) == IF n = 0 THEN 0 ELSE ReceivedUpTo(cs, n - 1) + cs[n].received

\* the frontend sends a spec on comm c: the comm's _recv runs
ReceiveMsg ==
    /\ ReceivedUpTo(comms, Len(comms)) < MaxMsgs
    /\ \E c \in DOMAIN comms : \E s \in MsgSpecs :
          /\ displays' = _recv(comms[c], s, displays)
          /\ comms' = [comms EXCEPT ![c].received = @ + 1]
          /\ k_last' = [op |-> "_recv", comm |-> c, spec |-> s]
    /\ UNCHANGED <<_i, _name_to_ibis, enabled, chart, cell, issued, uvars>>

NextRender == RegisterChart \/ CallIbisRenderer \/ ReceiveMsg

SpecRender == InitRender /\ [][NextRender]_vars

---------------------------------------------------------------------------
(* display_chart: the stages of rendering of a chart, shown in one cell     *)

\* the calls display_chart makes, in order
Header(name) == [kind |-> "header", name |-> name]

Render(compile, extract, type) ==
    [kind |-> "render", compile |-> compile, extract |-> extract, type |-> type]

\* lines 323-324, 330-331, 341-342: the render added when backend_render is set
BackendRender(backend_render) ==
    IF backend_render THEN <<Render(FALSE, FALSE, "vl-omnisci")>> ELSE <<>>

\* lines 319-342
Script(backend_render) ==
    <<Header("Initial"),
      Render(FALSE, FALSE, "json"), Render(FALSE, FALSE, "sql"), Render(FALSE, FALSE, "vl")>>
    \o BackendRender(backend_render)
    \o <<Header("Compiled"),
         Render(TRUE, FALSE, "json"), Render(TRUE, FALSE, "sql"), Render(TRUE, FALSE, "vl")>>
    \o BackendRender(backend_render)
    \o <<Header("Extracted"),
         Render(FALSE, TRUE, "json"), Render(FALSE, TRUE, "vl"),
         Header("Extracted then Compiled"),
         Render(TRUE, TRUE, "json"), Render(TRUE, TRUE, "sql"), Render(TRUE, TRUE, "vl")>>
    \o BackendRender(backend_render)

\* the kernel as display_chart runs: the globals, the displays and comms, the
\* renderer's options and the outputs of the cell
KernelNow == [i |-> _i, reg |-> _name_to_ibis, displays |-> displays, comms |-> comms,
              enabled |-> enabled, cell |-> cell]

\* lines 310-311: display_header(name)
display_header(k, name) ==
    [k EXCEPT !.cell = Append(@, [kind |-> "h3", name |-> name])]

\* lines 314-316: the renderer enabled with the options, the method line shown
EnableAndShow(k, step) ==
    [k EXCEPT !.enabled = [type |-> step.type, extract |-> step.extract,
                           compile |-> step.compile],
              !.cell = Append(@, [kind |-> "method", compile |-> step.compile,
                                  extract |-> step.extract, type |-> step.type])]

\* the output of display(chart) when the renderer's outcome is r
ChartOutput(k, r) ==
    IF r.status = "returned"
    THEN [kind |-> "chart", options |-> k.enabled, status |-> r.status, output |-> r.value]
    ELSE [kind |-> "chart", options |-> k.enabled, status |-> r.status]

\* display(chart) after the data transformer returned t and the renderer r
Rendered(k, t, r) ==
    [k EXCEPT !.i = t.i, !.reg = r.reg, !.displays = r.displays, !.comms = r.comms,
              !.cell = Append(@, ChartOutput(k, r))]

\* line 317: display(chart), the chart's dict made through the data
\* transformer (whose outcome is t) and given to the renderer enabled; an
\* exception is shown in the cell and the function goes on
DisplayChartWith(k, t, ch) ==
    IF t.status = "raised"
    THEN [k EXCEPT !.i = t.i, !.reg = t.reg, !.cell = Append(@, ChartOutput(k, t))]
    ELSE Rendered(k, t, ibis_renderer(FlatSpec(t.value.name, ch.transform),
                                      k.enabled.type, k.enabled.extract, k.enabled.compile,
                                      t.reg, k.displays, k.comms))

display(k, ch) == DisplayChartWith(k, ibis_transformation(ch.data, k.i, k.reg), ch)

\* lines 313-317: display_render(compile, extract, type)
display_render(k, step, ch) == display(EnableAndShow(k, step), ch)

RunStep(k, step, ch) ==
    IF step.kind = "header" THEN display_header(k, step.name)
    ELSE display_render(k, step, ch)

\* the script goes on after call p left the kernel as k, every call showing
\* something in the cell
RECURSIVE RunFrom(_, _, _, _)
RunNext(k, script, p, ch) ==
    IF k.cell # <<>> THEN RunFrom(k, script, p + 1, ch) ELSE k

\* the kernel after the calls of the script from call p on
RunFrom(k, script, p, ch) ==
    IF p > Len(script) THEN k
    ELSE RunNext(RunStep(k, script[p], ch), script, p, ch)

\* display_chart(chart, backend_render) from the kernel k
display_chart(k, ch, backend_render) == RunFrom(k, Script(backend_render), 1, ch)

\* the charts display_chart is given
ChartValues ==
    {[data |-> updated_chart_init(d), transform |-> ts] :
        d \in RawDataValues, ts \in RenderLists}

InitChart ==
    /\ KernelIdle
    /\ enabled = DefaultOptions
    /\ chart \in ChartValues
    /\ UpdateIdle

\* the kernel after display_chart left it as k
SetDisplayed(k, backend_render) ==
    /\ _i' = k.i
    /\ _name_to_ibis' = k.reg
    /\ displays' = k.displays
    /\ comms' = k.comms
    /\ enabled' = k.enabled
    /\ cell' = k.cell
    /\ k_last' = [op |-> "display_chart", backend_render |-> backend_render]
    /\ UNCHANGED <<chart, issued, uvars>>

\* display_chart is called in a fresh cell
CallDisplayChart ==
    /\ cell = <<>>
    /\ \E backend_render \in BOOLEAN :
          SetDisplayed(display_chart(KernelNow, chart, backend_render), backend_render)

NextChart == CallDisplayChart \/ ReceiveMsg

SpecChart == InitChart /\ [][NextChart]_vars

---------------------------------------------------------------------------
(* Properties of update_spec, over SpecUpdate                               *)

RewrittenKeys == {"groupby", "aggregate", "filter"}

Returned == u_ret.status = "returned"

InputTransforms == GetTransform(u_spec0)

\* transform i as passed in, and as its loop iteration left it
InputT(i) == InputTransforms[i]
LeftT(i) == u_hist[i].transforms[i]

\* the expression before and after iteration i
ExprBefore(i) == IF i = 1 THEN u_expr0 ELSE u_hist[i - 1].expr
ExprAfter(i) == u_hist[i].expr

\* the operations iteration i appended to the expression
OpsAdded(i) ==
    SubSeq(ExprAfter(i).ops, Len(ExprBefore(i).ops) + 1, Len(ExprAfter(i).ops))

AddedOfKind(i, k) == SelectSeq(OpsAdded(i), LAMBDA op : op[1] = k)

\* iteration i only appended, and what it appended is in the returned expression
OpsKept(i) ==
    /\ Len(ExprAfter(i).ops) >= Len(ExprBefore(i).ops)
    /\ SubSeq(ExprAfter(i).ops, 1, Len(ExprBefore(i).ops)) = ExprBefore(i).ops
    /\ Len(u_ret.expr.ops) >= Len(ExprAfter(i).ops)
    /\ SubSeq(u_ret.expr.ops, 1, Len(ExprAfter(i).ops)) = ExprAfter(i).ops

\* where transform i is in the returned spec's list, the empty ones being dropped
OutputIndex(i) ==
    Len(SelectSeq(SubSeq(u_hist[Len(u_hist)].transforms, 1, i), Truthy))

\* entry k of transform i is in the spec after the call, with its value
EntryInSpecAfter(i, k) ==
    IF Returned
    THEN /\ Truthy(u_hist[Len(u_hist)].transforms[i])
         /\ OutputIndex(i) \in DOMAIN GetTransform(u_spec)
         /\ k \in DOMAIN GetTransform(u_spec)[OutputIndex(i)]
         /\ GetTransform(u_spec)[OutputIndex(i)][k] = InputT(i)[k]
    ELSE /\ k \in DOMAIN GetTransform(u_spec)[i]
         /\ GetTransform(u_spec)[i][k] = InputT(i)[k]

\* the one operation of kind k that iteration i appended is the one for value v
OpMatches(op, k, v) ==
    IF k = "groupby" THEN op[2] = v
    ELSE IF k = "aggregate"
    THEN /\ Len(op[2]) = Len(v)
         /\ \A j \in DOMAIN v : op[2][j].name = v[j].as
    ELSE \A j \in DOMAIN op[2] : op[2][j][1] = v.field

EntryApplied(i, k) ==
    /\ Len(AddedOfKind(i, k)) = 1
    /\ OpMatches(AddedOfKind(i, k)[1], k, InputT(i)[k])
    /\ OpsKept(i)

\* a field predicate one of the rules of lines 259-271 translates
TranslatableKeys == {"range", "equal", "gt", "lt", "lte", "gte"}
IsTranslatable(f) == "field" \in DOMAIN f /\ DOMAIN f \cap TranslatableKeys # {}

\* the groupby of transform i names a field the expression built so far lacks
GroupbyUnresolved(i) ==
    /\ "groupby" \in DOMAIN InputT(i)
    /\ \E f \in Range(InputT(i).groupby) : f \notin ExprBefore(i).cols

\* C1: for every transform whose filter is a (non-empty) predicate that is not
\* a translatable field predicate, filters without a "field" key included, the
\* iteration of update_spec that handles the transform does not raise, leaves
\* the filter in the transform unchanged and adds no filter operation to the
\* expression.
C1_FilterFallback ==
    \A i \in 1..Len(u_hist) :
        (/\ "filter" \in DOMAIN InputT(i)
         /\ Truthy(InputT(i).filter)
         /\ ~IsTranslatable(InputT(i).filter))
            => /\ ~u_hist[i].raised
               /\ "filter" \in DOMAIN LeftT(i)
               /\ LeftT(i).filter = InputT(i).filter
               /\ AddedOfKind(i, "filter") = <<>>

\* C2: a transform whose groupby names a field that is not a column of the
\* expression built so far keeps its groupby, aggregate and filter entries
\* unchanged, is still in the spec after update_spec, and its iteration neither
\* raises nor changes the expression.
C2_GroupbyFallback ==
    \A i \in 1..Len(u_hist) :
        GroupbyUnresolved(i)
            => /\ ~u_hist[i].raised
               /\ LeftT(i) = InputT(i)
               /\ ExprAfter(i) = ExprBefore(i)
               /\ \A k \in DOMAIN InputT(i) : EntryInSpecAfter(i, k)

\* C2 witness: update_spec returned, having pushed some operation, with a
\* transform holding all three entries left whole for its unresolved groupby
C2_Witness ==
    /\ Returned
    /\ u_ret.expr.ops # <<>>
    /\ \E i \in 1..Len(u_hist) :
          /\ GroupbyUnresolved(i)
          /\ DOMAIN InputT(i) = RewrittenKeys
          /\ Truthy(InputT(i).filter)

\* C3 as stated: after update_spec returns, every groupby, aggregate and filter
\* entry of every transform is either applied (once) and absent from the spec,
\* or not applied and still in the spec.
C3_EveryEntryOnce ==
    Returned =>
        \A i \in 1..Len(u_hist) : \A k \in DOMAIN InputT(i) \cap RewrittenKeys :
            \/ EntryApplied(i, k) /\ ~EntryInSpecAfter(i, k)
            \/ AddedOfKind(i, k) = <<>> /\ EntryInSpecAfter(i, k)

\* C3 amended: after update_spec returns, every non-empty groupby, aggregate and
\* filter entry is either applied once and absent from the spec, or not applied
\* and still in the spec; an empty entry is never applied, and it is removed
\* from the spec unless it is the aggregate or filter of a transform left whole
\* because its groupby could not be resolved.
C3_NonEmptyEntryOnce ==
    Returned =>
        \A i \in 1..Len(u_hist) : \A k \in DOMAIN InputT(i) \cap RewrittenKeys :
            IF Truthy(InputT(i)[k])
            THEN \/ EntryApplied(i, k) /\ ~EntryInSpecAfter(i, k)
                 \/ AddedOfKind(i, k) = <<>> /\ EntryInSpecAfter(i, k)
            ELSE /\ AddedOfKind(i, k) = <<>>
                 /\ EntryInSpecAfter(i, k) <=> GroupbyUnresolved(i)

\* C3 witness: update_spec returned with one transform's aggregate applied and
\* gone while its filter stayed, and with an empty groupby dropped
C3_Witness ==
    /\ Returned
    /\ \E i \in 1..Len(u_hist) :
          /\ {"aggregate", "filter"} \subseteq DOMAIN InputT(i)
          /\ EntryApplied(i, "aggregate") /\ ~EntryInSpecAfter(i, "aggregate")
          /\ EntryInSpecAfter(i, "filter")
    /\ \E i \in 1..Len(u_hist) :
          /\ "groupby" \in DOMAIN InputT(i)
          /\ ~Truthy(InputT(i).groupby)
          /\ ~EntryInSpecAfter(i, "groupby")

\* C9: once a transform, or part of one, has been left in the spec, no later
\* transform of the list adds an operation to the expression.
C9_NothingPushedAfterLeft ==
    Returned =>
        \A i \in 1..Len(u_hist) : \A j \in 1..Len(u_hist) :
            (i < j /\ Truthy(u_hist[Len(u_hist)].transforms[i]))
                => OpsAdded(j) = <<>>

---------------------------------------------------------------------------
(* Properties of the registry, over SpecRegistry                           *)

LastReturned(op) == k_last.op = op /\ k_last.result.status = "returned"

\* the name retrieve_expr reads from a spec, if the spec has one: <<>> or <<n>>
NameRead(spec) ==
    IF "spec" \in DOMAIN spec
    THEN IF "data" \in DOMAIN spec.spec /\ "name" \in DOMAIN spec.spec.data
         THEN <<spec.spec.data.name>> ELSE <<>>
    ELSE IF "data" \in DOMAIN spec /\ "name" \in DOMAIN spec.data
         THEN <<spec.data.name>> ELSE <<>>

\* C4: every call to ibis_transformation returns a name different from every
\* name returned before, and does not overwrite a registry entry; an entry not
\* retrieved yet is in the registry with the expression registered under it, so
\* a retrieve_expr that finds the name returns exactly that expression.
C4_UniqueNames ==
    /\ \A a \in DOMAIN issued : \A b \in DOMAIN issued :
          a # b => issued[a].name # issued[b].name
    /\ LastReturned("ibis_transformation")
          => /\ k_last.result.value.name \notin DOMAIN k_last.reg_before
             /\ \A n \in DOMAIN k_last.reg_before :
                   n \in DOMAIN _name_to_ibis /\ _name_to_ibis[n] = k_last.reg_before[n]
    /\ \A a \in DOMAIN issued :
          issued[a].retrieved = 0
             => /\ issued[a].name \in DOMAIN _name_to_ibis
                /\ _name_to_ibis[issued[a].name] = issued[a].expr
    /\ LastReturned("retrieve_expr")
          => \E a \in DOMAIN issued :
                /\ <<issued[a].name>> = NameRead(k_last.spec)
                /\ issued[a].expr = k_last.result.value

\* C4 witness: several names issued for different expressions, one of them just
\* retrieved, another still waiting in the registry
C4_Witness ==
    /\ LastReturned("retrieve_expr")
    /\ \E a \in DOMAIN issued : \E b \in DOMAIN issued :
          /\ issued[a].retrieved = 1 /\ issued[b].retrieved = 0
          /\ issued[a].expr # issued[b].expr
          /\ <<issued[a].name>> = NameRead(k_last.spec)

\* C5: a retrieve_expr whose spec (its "spec" sub-dict when it has one) names a
\* registered entry returns that entry's expression and removes exactly that
\* entry; any other retrieve_expr raises and leaves the registry unchanged; the
\* name counter is unchanged either way; no registered expression is retrieved
\* twice.
C5_RetrieveConsumes ==
    /\ k_last.op = "retrieve_expr"
          => /\ _i = k_last.i_before
             /\ IF /\ NameRead(k_last.spec) # <<>>
                   /\ NameRead(k_last.spec)[1] \in DOMAIN k_last.reg_before
                THEN /\ k_last.result.status = "returned"
                     /\ k_last.result.value = k_last.reg_before[NameRead(k_last.spec)[1]]
                     /\ DOMAIN _name_to_ibis
                            = DOMAIN k_last.reg_before \ {NameRead(k_last.spec)[1]}
                     /\ \A n \in DOMAIN _name_to_ibis :
                            _name_to_ibis[n] = k_last.reg_before[n]
                ELSE /\ k_last.result.status = "raised"
                     /\ _name_to_ibis = k_last.reg_before
    /\ \A a \in DOMAIN issued : issued[a].retrieved <= 1

\* C5 witness: a retrieve_expr has just raised for a name that was registered
\* and already retrieved, read from a "spec" sub-dict, with another entry still
\* registered
C5_Witness ==
    /\ k_last.op = "retrieve_expr"
    /\ k_last.result.status = "raised"
    /\ "spec" \in DOMAIN k_last.spec
    /\ _name_to_ibis # <<>>
    /\ \E a \in DOMAIN issued :
          issued[a].retrieved = 1 /\ <<issued[a].name>> = NameRead(k_last.spec)

---------------------------------------------------------------------------
(* Properties of the renderer, over SpecRender                             *)

\* the expression registered under name n
IssuedExpr(n) == issued[CHOOSE a \in DOMAIN issued : issued[a].name = n].expr

\* what a display of this type shows until it is updated
Placeholder(type, expr) == DisplayObject(type, DisplayData(type, get_client(expr)))

\* the data of the display object behind a mime bundle
BundleData(type, bundle) ==
    IF type = "vl-omnisci"
    THEN <<bundle.data.vegalite, bundle.data.connection>>
    ELSE bundle.data

\* the output out of the given type is made of spec and of expression e
MadeOf(out, spec, e, type) ==
    IF type = "sql" THEN out = IbisCompile(e)
    ELSE IF type = "json" THEN out = spec
    ELSE IF type = "vl"
    THEN /\ GetTransform(out) = GetTransform(spec)
         /\ InnerSpec(out).data = DEFAULT_TRANSFORMER(IbisExecute(e))
    ELSE /\ GetTransform(out[1]) = GetTransform(spec)
         /\ InnerSpec(out[1]).data = [sql |-> IbisCompile(e)]
         /\ out[2] = get_client(e)

\* the output is made as the compile argument says, from the spec received
\* and the chart's expression e
MadeAsCompileSays(out, spec, e, type, compile) ==
    IF compile
    THEN /\ update_spec(e, spec).status = "returned"
         /\ MadeOf(out, update_spec(e, spec).spec, update_spec(e, spec).expr, type)
    ELSE MadeOf(out, spec, e, type)

\* C6: with extract=True ibis_renderer shows the placeholder, opens the comm
\* with the spec and returns the empty text/plain bundle; the display is
\* updated exactly once per message received on the comm, with to_display of
\* the message's spec, and keeps the placeholder while no message has arrived.
\* With extract=False no comm is opened and ibis_renderer returns the final
\* display.
C6_AsyncDisplay ==
    IF enabled.extract
    THEN /\ Len(displays) = Len(comms)
         /\ LastReturned("ibis_renderer")
               => /\ k_last.result.value = [text_plain |-> ""]
                  /\ comms # <<>>
                  /\ comms[Len(comms)].data = k_last.spec
                  /\ comms[Len(comms)].received = 0
         /\ \A c \in DOMAIN comms :
               /\ displays[comms[c].display].updates = comms[c].received
               /\ comms[c].received = 0
                     => displays[comms[c].display].shown
                            = Placeholder(comms[c].type, comms[c].expr)
         /\ k_last.op = "_recv"
               => /\ to_display(k_last.spec, comms[k_last.comm].expr,
                                comms[k_last.comm].type, comms[k_last.comm].compile,
                                get_client(comms[k_last.comm].expr)).status = "returned"
                  /\ displays[comms[k_last.comm].display].shown
                        = to_display(k_last.spec, comms[k_last.comm].expr,
                                     comms[k_last.comm].type, comms[k_last.comm].compile,
                                     get_client(comms[k_last.comm].expr)).value
    ELSE /\ comms = <<>>
         /\ displays = <<>>
         /\ LastReturned("ibis_renderer")
               => k_last.result.value
                    = Format(to_display(k_last.spec, IssuedExpr(NameRead(k_last.spec)[1]),
                                        enabled.type, enabled.compile,
                                        get_client(IssuedExpr(NameRead(k_last.spec)[1]))).value)

\* C7: when compile is False the output (the value ibis_renderer returns with
\* extract=False, the display update after a message with extract=True) has
\* the spec's transform list as received and its data or SQL from the
\* expression registered for the chart; when compile is True it is made of
\* the spec and the expression update_spec gives for them.
C7_CompileDecides ==
    /\ \A c \in DOMAIN comms :
          /\ comms[c].expr = IssuedExpr(NameRead(comms[c].data)[1])
          /\ comms[c].compile = enabled.compile
          /\ comms[c].type = enabled.type
    /\ (LastReturned("ibis_renderer") /\ ~enabled.extract)
          => MadeAsCompileSays(BundleData(enabled.type, k_last.result.value), k_last.spec,
                               IssuedExpr(NameRead(k_last.spec)[1]),
                               enabled.type, enabled.compile)
    /\ (/\ k_last.op = "_recv"
        /\ enabled.compile => update_spec(comms[k_last.comm].expr, k_last.spec).status
                                  = "returned")
          => MadeAsCompileSays(displays[comms[k_last.comm].display].shown[2], k_last.spec,
                               IssuedExpr(NameRead(comms[k_last.comm].data)[1]),
                               enabled.type, enabled.compile)

\* C7 witness: with compile=False a second message, carrying transforms, has
\* updated the display
C7_Witness ==
    /\ k_last.op = "_recv"
    /\ ~enabled.compile
    /\ GetTransform(k_last.spec) # <<>>
    /\ displays[comms[k_last.comm].display].updates = 2

---------------------------------------------------------------------------
(* Properties of display_chart, over SpecChart                             *)

\* the header the output at position p of the cell is shown under
RECURSIVE HeaderBefore(_)
HeaderBefore(p) == IF cell[p].kind = "h3" THEN cell[p].name ELSE HeaderBefore(p - 1)

\* the settings a stage stands for
StageCompile(name) == name \in {"Compiled", "Extracted then Compiled"}

StageExtract(name) == name \in {"Extracted", "Extracted then Compiled"}

\* C8: every chart display_chart shows under a stage header is rendered with
\* that stage's compile and extract settings, the 'vl-omnisci' renders of
\* backend_render=True included.
C8_StageSettings ==
    \A p \in DOMAIN cell :
        cell[p].kind = "chart"
            => /\ cell[p].options.compile = StageCompile(HeaderBefore(p))
               /\ cell[p].options.extract = StageExtract(HeaderBefore(p))

=============================================================================
